---- MODULE Spec2Model ----
(***************************************************************************)
(* AmDb: the engine facade DatabaseWASM (put / get / batch_put / delete /  *)
(* flush / get_history / get_root_hash), the version chain manager         *)
(* VersionManagerCython (create_versions_batch / create_version and its    *)
(* readers), the write buffer SkipListCython (put / put_batch), the        *)
(* persistence coordinator Database.flush, and the write flow, flush flow  *)
(* and restart of the durable engine.                                      *)
(*                                                                         *)
(* Representation.  Python bytes and str are sequences of one-character    *)
(* strings; None is the one-element sequence <<"None">>, which is no byte  *)
(* string.  A SHA-256 digest is a one-element sequence whose element       *)
(* spells the hashed content: the hash is modelled as collision-free,      *)
(* and the digest can be concatenated into further content as bytes are.   *)
(* A Python dict whose iteration order is observable (data) is a sequence  *)
(* of <<key, value>> pairs in insertion order.                             *)
(***************************************************************************)
EXTENDS Naturals, Integers, Sequences, FiniteSets, TLC

VARIABLES
    data,             \* DatabaseWASM.data, per store: dict bytes -> bytes
    versions,         \* DatabaseWASM.versions, per store: key -> list of records
    current_version,  \* DatabaseWASM.current_version, per store
    ret,              \* what the last call returned to its caller
    vm_versions,      \* VersionManagerCython.versions: key -> list of VersionCython
    current_versions, \* VersionManagerCython.current_versions: key -> int
    th,               \* per thread: the locals of its create_versions_batch call
    sl,               \* SkipListCython: its nodes, level and size
    fl,               \* the flush coordinator of Database
    en,               \* the durable engine: memory, log and storage
    lsm               \* the LSM tree's flush: its wait for the immutable memtable

dbvars == <<data, versions, current_version>>
vmvars == <<vm_versions, current_versions, th>>
slvars == <<sl>>
flvars == <<fl>>
envars == <<en>>
lsvars == <<lsm>>
extvars == <<slvars, flvars, envars, lsvars>>
vars == <<data, versions, current_version, ret, vm_versions, current_versions, th,
          sl, fl, en, lsm>>

----------------------------------------------------------------------------
(* Bounds of the model *)

MaxVersion == 3       \* writes per store in Spec
MaxPairWrites == 4    \* writes to the two stores together in PairSpec
MaxBatch == 2         \* items of one batch_put
MaxVmRecords == 3     \* records the manager holds in VmSpec
MaxVmBatch == 2       \* modelled items of one create_versions_batch
MaxConcRecords == 2   \* records minted in ConcSpec
MaxReadRecords == 2   \* records the manager holds in ReadSpec
MaxSlBatch == 2       \* items of one put_batch
FlushTicks == 2       \* clock ticks in one debounce interval
MaxFailures == 1      \* sub-steps that fail in one pass
MaxEnWrites == 3      \* writes to the durable engine
MaxRestarts == 1      \* crashes of the durable engine
MaxHashRecords == 2   \* records the manager holds in HashSpec

----------------------------------------------------------------------------
(* Python values *)

None == <<"None">>

Keys == {<<"a">>, <<"b">>, <<"a", "b">>}
\* the keys written in Spec
SpecKeys == {<<"a">>, <<"b">>}
Values == {<<"1">>, <<"2">>}
Stores == {1, 2}
\* time.time() in tenths of a second
Times == {10, 15}
PairTimes == {10}
VKeys == {<<"a">>, <<"b">>}
VValues == {<<"x">>, <<"y">>}
Threads == {1, 2}

\* ord() of the characters a key can hold
Ord(c) ==
    CASE c = "'" -> 39
      [] c = "1" -> 49
      [] c = "2" -> 50
      [] c = ":" -> 58
      [] c = "a" -> 97
      [] c = "b" -> 98
      [] OTHER -> 0

\* bytes.__lt__: byte-lexicographic, a proper prefix first
RECURSIVE BytesLess(_, _)
BytesLess(x, y) ==
    IF y = <<>> THEN FALSE
    ELSE IF x = <<>> THEN TRUE
    ELSE IF Ord(Head(x)) # Ord(Head(y)) THEN Ord(Head(x)) < Ord(Head(y))
    ELSE BytesLess(Tail(x), Tail(y))

\* sorted(list of distinct bytes): ascending
RECURSIVE Sorted(_)
Sorted(s) ==
    IF s = <<>> THEN <<>>
    ELSE LET i == CHOOSE i \in 1..Len(s) :
                     \A j \in 1..Len(s) : j = i \/ BytesLess(s[i], s[j])
             rest == [j \in 1..(Len(s) - 1) |-> IF j < i THEN s[j] ELSE s[j + 1]]
         IN  <<s[i]>> \o Sorted(rest)

\* b''.join(list)
RECURSIVE Join(_)
Join(s) == IF s = <<>> THEN <<>> ELSE Head(s) \o Join(Tail(s))

\* str(int) for n >= 0
DigitChar(d) == <<"0", "1", "2", "3", "4", "5", "6", "7", "8", "9">>[d + 1]
RECURSIVE Str(_)
Str(n) == IF n < 10 THEN <<DigitChar(n)>> ELSE Str(n \div 10) \o <<DigitChar(n % 10)>>

\* str(bytes) as an f-string renders it: b'...'  (printable bytes, no quotes)
Repr(b) == <<"b", "'">> \o b \o <<"'">>

\* the characters of a content, spelled out as one string
RECURSIVE Flat(_)
Flat(s) == IF s = <<>> THEN "" ELSE Head(s) \o Flat(Tail(s))

\* hashlib.sha256(content).digest(), collision-free
SHA256(content) == << "sha256(" \o Flat(content) \o ")" >>

\* b'0' * 32
ZeroRoot == [i \in 1..32 |-> "0"]

\* b'__DELETED__'
DELETED == <<"_", "_", "D", "E", "L", "E", "T", "E", "D", "_", "_">>

----------------------------------------------------------------------------
(* dict, in insertion order *)

DictKeys(d) == [i \in 1..Len(d) |-> d[i][1]]
DictHas(d, k) == \E i \in 1..Len(d) : d[i][1] = k
DictGet(d, k) ==
    IF DictHas(d, k) THEN d[CHOOSE i \in 1..Len(d) : d[i][1] = k][2] ELSE None
DictSet(d, k, v) ==
    IF DictHas(d, k)
    THEN [i \in 1..Len(d) |-> IF d[i][1] = k THEN <<k, v>> ELSE d[i]]
    ELSE Append(d, <<k, v>>)

----------------------------------------------------------------------------
(* DatabaseWASM *)

\* int(time.time() * 1000)
TimestampMs(now) == now * 100

\* put: self.data[key_bytes] = value_bytes
PutData(d, k, v) == DictSet(d, k, v)

\* put: self.versions[key_bytes].append({version, value, timestamp})
PutVersions(vs, k, v, cv, now) ==
    [vs EXCEPT ![k] = Append(@, [version |-> cv, value |-> v,
                                 timestamp |-> TimestampMs(now)])]

\* put: the digest it returns
PutRootHash(k, v, cv) ==
    SHA256(Repr(k) \o <<":">> \o Repr(v) \o <<":">> \o Str(cv))

\* a scan from the oldest record, returning the first with version <= requested
RECURSIVE GetVersionedForward(_, _)
GetVersionedForward(l, version) ==
    IF l = <<>> THEN None
    ELSE IF l[1].version <= version THEN l[1].value
    ELSE GetVersionedForward(Tail(l), version)

\* get(key, version): the scan of reversed(self.versions[key])
RECURSIVE GetVersioned(_, _)
GetVersioned(l, version) ==
    IF l = <<>> THEN None
    ELSE IF l[Len(l)].version <= version THEN l[Len(l)].value
    ELSE GetVersioned(SubSeq(l, 1, Len(l) - 1), version)

\* get(key, version=None)
\* a version argument is <<n>>, and <<>> when the caller gives none
NoVersion == <<>>
Get(d, vs, k, version) ==
    IF Len(version) > 0
    THEN GetVersioned(vs[k], version[1])
    ELSE DictGet(d, k)

\* get_history(key)
GetHistory(vs, k) == vs[k]

\* a root over the keys in insertion order, not sorted
GetRootHashUnsorted(d) ==
    IF d = <<>> THEN ZeroRoot ELSE SHA256(Join(DictKeys(d)))

\* get_root_hash()
GetRootHash(d) ==
    IF d = <<>> THEN ZeroRoot ELSE SHA256(Join(Sorted(DictKeys(d))))

\* batch_put: the loop over items, from state st = [data, versions, current_version]
RECURSIVE BatchPutLoop(_, _, _)
BatchPutLoop(st, items, nows) ==
    IF items = <<>> THEN st
    ELSE LET k == Head(items)[1]
             v == Head(items)[2]
             cv == st.current_version + 1
         IN  BatchPutLoop([data |-> PutData(st.data, k, v),
                           versions |-> PutVersions(st.versions, k, v, cv, Head(nows)),
                           current_version |-> cv],
                          Tail(items), Tail(nows))

\* batch_put: the digest it returns
BatchRootHash(items) ==
    SHA256(Join([i \in 1..Len(items) |-> items[i][1] \o items[i][2]]))

\* delete: the tombstone written over the value
DeleteData(d, k) == DictSet(d, k, DELETED)

\* a thread that is in no call
IdleThread == [pc |-> "idle"]

Result(op, i, k, v, ok, digest, items) ==
    [op |-> op, store |-> i, key |-> k, value |-> v, ok |-> ok,
     digest |-> digest, items |-> items]

Put(i, k, v, now) ==
    /\ data' = [data EXCEPT ![i] = PutData(@, k, v)]
    /\ current_version' = [current_version EXCEPT ![i] = @ + 1]
    /\ versions' = [versions EXCEPT
                      ![i] = PutVersions(@, k, v, current_version[i] + 1, now)]
    /\ ret' = Result("put", i, k, v, TRUE,
                     PutRootHash(k, v, current_version[i] + 1), <<>>)
    /\ UNCHANGED <<vmvars, extvars>>

BatchPut(i, items, nows) ==
    LET st == BatchPutLoop([data |-> data[i], versions |-> versions[i],
                            current_version |-> current_version[i]], items, nows)
    IN  /\ data' = [data EXCEPT ![i] = st.data]
        /\ versions' = [versions EXCEPT ![i] = st.versions]
        /\ current_version' = [current_version EXCEPT ![i] = st.current_version]
        /\ ret' = Result("batch_put", i, None, None, TRUE, BatchRootHash(items), items)
        /\ UNCHANGED <<vmvars, extvars>>

\* a delete that counts the call even when the key is absent
DeleteCounts(i, k) ==
    IF DictHas(data[i], k)
    THEN /\ data' = [data EXCEPT ![i] = DeleteData(@, k)]
         /\ current_version' = [current_version EXCEPT ![i] = @ + 1]
         /\ ret' = Result("delete", i, k, None, TRUE, None, <<>>)
         /\ UNCHANGED <<versions, vmvars, extvars>>
    ELSE /\ current_version' = [current_version EXCEPT ![i] = @ + 1]
         /\ ret' = Result("delete", i, k, None, FALSE, None, <<>>)
         /\ UNCHANGED <<data, versions, vmvars, extvars>>

Delete(i, k) ==
    IF DictHas(data[i], k)
    THEN /\ data' = [data EXCEPT ![i] = DeleteData(@, k)]
         /\ current_version' = [current_version EXCEPT ![i] = @ + 1]
         /\ ret' = Result("delete", i, k, None, TRUE, None, <<>>)
         /\ UNCHANGED <<versions, vmvars, extvars>>
    ELSE /\ ret' = Result("delete", i, k, None, FALSE, None, <<>>)
         /\ UNCHANGED <<dbvars, vmvars, extvars>>

\* a flush that hands the in-memory data off and starts with an empty map
FlushEvicts(i, force_sync) ==
    /\ ret' = Result("flush", i, None, <<force_sync>>, TRUE, None, <<>>)
    /\ data' = [data EXCEPT ![i] = <<>>]
    /\ UNCHANGED <<versions, current_version, vmvars, extvars>>

\* flush(force_sync): persistence is left to the JavaScript layer
Flush(i, force_sync) ==
    /\ ret' = Result("flush", i, None, <<force_sync>>, TRUE, None, <<>>)
    /\ UNCHANGED <<dbvars, vmvars, extvars>>

----------------------------------------------------------------------------
(* VersionCython *)

\* str(float) of a time given in tenths of a second: 10 is "1.0", 15 is "1.5"
StrFloat(t) == Str(t \div 10) \o <<".">> \o Str(t % 10)

\* a constructor that computes the digest at once
NewVersionEager(version, timestamp, value, prev_hash) ==
    [version |-> version, timestamp |-> timestamp, value |-> value,
     prev_hash |-> prev_hash,
     hash |-> SHA256(Str(version) \o StrFloat(timestamp) \o value
                         \o (IF prev_hash = None THEN <<>> ELSE prev_hash))]

\* VersionCython.__cinit__
NewVersion(version, timestamp, value, prev_hash) ==
    [version |-> version, timestamp |-> timestamp, value |-> value,
     prev_hash |-> prev_hash, hash |-> None]

\* _compute_hash: the bytes that are hashed
Content(r) ==
    Str(r.version) \o StrFloat(r.timestamp) \o r.value
        \o (IF r.prev_hash = None THEN <<>> ELSE r.prev_hash)

\* _compute_hash: sets hash unless it is set
ComputeHash(r) ==
    IF r.hash # None THEN r ELSE [r EXCEPT !.hash = SHA256(Content(r))]

\* two records built by a caller, each asked for its digest
Digests(r1, r2) ==
    /\ ret' = [op |-> "digests", a |-> ComputeHash(r1), b |-> ComputeHash(r2)]
    /\ UNCHANGED <<dbvars, vmvars, extvars>>

----------------------------------------------------------------------------
(* VersionManagerCython.create_versions_batch *)

\* the thresholds on len(items)
SkipPrevHashLen == 5000
AggressiveLen == 20000

\* items of a batch that write keys outside VKeys: they count in len(items)
Pads == {0, SkipPrevHashLen, AggressiveLen}

\* dict.get(key, 0)
GetOr0(d, key) == IF key \in DOMAIN d THEN d[key] ELSE 0

\* dict.get(key): the list, or the empty list for None (both are falsy)
GetList(d, key) == IF key \in DOMAIN d THEN d[key] ELSE <<>>

\* new_ver = current_versions.get(key, 0) + 1
NewVer(cur, key) == GetOr0(cur, key) + 1

\* the predecessor's hash is forced before it is linked to
ForcePrev(vs, key, skip_prev_hash) ==
    IF ~skip_prev_hash /\ GetList(vs, key) # <<>>
    THEN [vs EXCEPT ![key][Len(vs[key])] = ComputeHash(@)]
    ELSE vs

\* prev_hash of the record being created
PrevHash(vs, key, skip_prev_hash) ==
    IF ~skip_prev_hash /\ GetList(vs, key) # <<>>
    THEN ComputeHash(vs[key][Len(vs[key])]).hash
    ELSE None

\* an append that puts the record at the front of the list
AppendVersionFront(vs, key, rec) ==
    [k \in DOMAIN vs \cup {key} |->
        IF k = key THEN <<rec>> \o GetList(vs, key) ELSE vs[k]]

\* versions.setdefault(key, []).append(version)
AppendVersion(vs, key, rec) ==
    [k \in DOMAIN vs \cup {key} |->
        IF k = key THEN Append(GetList(vs, key), rec) ELSE vs[k]]

\* updates_dict[key] = new_ver
SetUpdate(u, key, new_ver) ==
    [k \in DOMAIN u \cup {key} |-> IF k = key THEN new_ver ELSE u[k]]

\* an update that keeps the number a key already has
UpdateCurrentStale(cur, u) ==
    [k \in DOMAIN cur \cup DOMAIN u |-> IF k \in DOMAIN cur THEN cur[k] ELSE u[k]]

\* current_versions.update(updates_dict)
UpdateCurrent(cur, u) ==
    [k \in DOMAIN cur \cup DOMAIN u |-> IF k \in DOMAIN u THEN u[k] ELSE cur[k]]

\* one iteration of the standard loop, on m = [versions, updates, out]
StandardItem(m, new_ver, key, value, now, skip_prev_hash) ==
    LET rec == NewVersion(new_ver, now, value,
                          PrevHash(m.versions, key, skip_prev_hash))
    IN  [versions |-> AppendVersion(ForcePrev(m.versions, key, skip_prev_hash),
                                    key, rec),
         updates |-> SetUpdate(m.updates, key, new_ver),
         out |-> Append(m.out, rec)]

\* one iteration of the loop for more than AggressiveLen items
AggressiveItem(m, new_ver, key, value, now) ==
    LET rec == NewVersion(new_ver, now, value, None)
    IN  [versions |-> AppendVersion(m.versions, key, rec),
         updates |-> SetUpdate(m.updates, key, new_ver),
         out |-> Append(m.out, rec)]

\* one iteration, by the path the batch length selects
BatchItem(m, new_ver, key, value, now, items_len) ==
    IF items_len > AggressiveLen
    THEN AggressiveItem(m, new_ver, key, value, now)
    ELSE StandardItem(m, new_ver, key, value, now, items_len > SkipPrevHashLen)

\* the loop over the items; current_versions is read, not written, by it
RECURSIVE BatchLoop(_, _, _, _, _)
BatchLoop(m, cur, items, now, items_len) ==
    IF items = <<>> THEN m
    ELSE BatchLoop(BatchItem(m, NewVer(cur, Head(items)[1]), Head(items)[1],
                             Head(items)[2], now, items_len),
                   cur, Tail(items), now, items_len)

NoUpdates == [k \in {} |-> 0]

\* create_versions_batch(items), run to its end by one caller
CreateVersionsBatch(items, pad, now) ==
    IF Len(items) + pad = 0
    THEN /\ ret' = Result("create_versions_batch", 0, None, <<>>, TRUE, None, items)
         /\ UNCHANGED <<dbvars, vmvars, extvars>>
    ELSE LET m == BatchLoop([versions |-> vm_versions, updates |-> NoUpdates,
                             out |-> <<>>],
                            current_versions, items, now, Len(items) + pad)
         IN  /\ vm_versions' = m.versions
             /\ current_versions' = UpdateCurrent(current_versions, m.updates)
             /\ ret' = Result("create_versions_batch", 0, None, m.out, TRUE, None,
                              items)
             /\ UNCHANGED <<dbvars, th, extvars>>

\* create_version(key, value)
CreateVersion(key, value, now) ==
    LET m == BatchLoop([versions |-> vm_versions, updates |-> NoUpdates,
                        out |-> <<>>],
                       current_versions, <<(<<key, value>>)>>, now, 1)
    IN  /\ vm_versions' = m.versions
        /\ current_versions' = UpdateCurrent(current_versions, m.updates)
        /\ ret' = Result("create_version", 0, key, m.out[1], TRUE, None, <<>>)
        /\ UNCHANGED <<dbvars, th, extvars>>

(* create_versions_batch called by several threads.  The method takes no   *)
(* lock (self.lock is acquired by the readers only), so a thread may be    *)
(* preempted between any two of its steps: the read of current_versions,   *)
(* the append of the record, and the final current_versions.update.        *)

\* entry: the locals are set up (a call with no item returns at once)
Call(t, items, pad, now) ==
    /\ th[t].pc = "idle"
    /\ Len(items) > 0
    /\ th' = [th EXCEPT ![t] = [pc |-> "read", items |-> items, idx |-> 1,
                                now |-> now, items_len |-> Len(items) + pad,
                                updates |-> NoUpdates, out |-> <<>>, new_ver |-> 0]]
    /\ UNCHANGED <<dbvars, extvars, ret, vm_versions, current_versions>>

\* current_ver = get_method(key, 0); new_ver = current_ver + 1
ReadVer(t) ==
    /\ th[t].pc = "read"
    /\ th' = [th EXCEPT ![t].new_ver = NewVer(current_versions,
                                              th[t].items[th[t].idx][1]),
                        ![t].pc = "append"]
    /\ UNCHANGED <<dbvars, extvars, ret, vm_versions, current_versions>>

\* the rest of the iteration: link, create, append
AppendItem(t) ==
    /\ th[t].pc = "append"
    /\ LET l == th[t]
           m == BatchItem([versions |-> vm_versions, updates |-> l.updates,
                           out |-> l.out],
                          l.new_ver, l.items[l.idx][1], l.items[l.idx][2],
                          l.now, l.items_len)
       IN  /\ vm_versions' = m.versions
           /\ th' = [th EXCEPT ![t].updates = m.updates, ![t].out = m.out,
                               ![t].idx = l.idx + 1,
                               ![t].pc = IF l.idx < Len(l.items)
                                         THEN "read" ELSE "update"]
    /\ UNCHANGED <<dbvars, extvars, ret, current_versions>>

\* current_versions_dict.update(updates_dict); return versions
Return(t) ==
    /\ th[t].pc = "update"
    /\ current_versions' = UpdateCurrent(current_versions, th[t].updates)
    /\ ret' = Result("create_versions_batch", t, None, th[t].out, TRUE, None,
                     th[t].items)
    /\ th' = [th EXCEPT ![t] = IdleThread]
    /\ UNCHANGED <<dbvars, extvars, vm_versions>>

\* a range test that leaves the end bound out of the range
InRangeHalfOpen(v, start_version, end_version) ==
    /\ (IF Len(start_version) = 0 THEN 0 ELSE start_version[1]) <= v.version
    /\ (Len(end_version) = 0 \/ v.version < end_version[1])

\* get_history: start_version <= v.version <= end_version, where a missing
\* start is 0 and a missing end is float('inf')
InRange(v, start_version, end_version) ==
    /\ (IF Len(start_version) = 0 THEN 0 ELSE start_version[1]) <= v.version
    /\ (Len(end_version) = 0 \/ v.version <= end_version[1])

\* get_history(key, start_version, end_version): the list comprehension
GetHistoryRange(vs, key, start_version, end_version) ==
    IF key \notin DOMAIN vs THEN <<>>
    ELSE SelectSeq(vs[key], LAMBDA v : InRange(v, start_version, end_version))

\* get_history as a call: it reads under the lock and returns a new list
VmGetHistory(key, start_version, end_version) ==
    /\ ret' = [op |-> "get_history", key |-> key, start_version |-> start_version,
               end_version |-> end_version,
               out |-> GetHistoryRange(vm_versions, key, start_version, end_version)]
    /\ UNCHANGED <<dbvars, vmvars, extvars>>

\* a reader's result: <<record>>, or <<>> for None
NoRecord == <<>>

\* get_latest(key): the last record of the key's list, None for no list
GetLatest(vs, key) ==
    IF GetList(vs, key) # <<>> THEN <<vs[key][Len(vs[key])]>> ELSE NoRecord

\* a binary search that narrows to the wrong half on a smaller mid version
RECURSIVE BinarySearchWrongHalf(_, _, _, _)
BinarySearchWrongHalf(versions_list, version, left, right) ==
    IF left > right THEN NoRecord
    ELSE LET mid == (left + right) \div 2
             mid_version == versions_list[mid + 1].version
         IN IF mid_version = version THEN <<versions_list[mid + 1]>>
            ELSE IF mid_version < version
                 THEN BinarySearchWrongHalf(versions_list, version, left, mid - 1)
                 ELSE BinarySearchWrongHalf(versions_list, version, mid + 1, right)

\* get_version: the while loop on left and right (0-based indexes)
RECURSIVE BinarySearch(_, _, _, _)
BinarySearch(versions_list, version, left, right) ==
    IF left > right THEN NoRecord
    ELSE LET mid == (left + right) \div 2
             mid_version == versions_list[mid + 1].version
         IN IF mid_version = version THEN <<versions_list[mid + 1]>>
            ELSE IF mid_version < version
                 THEN BinarySearch(versions_list, version, mid + 1, right)
                 ELSE BinarySearch(versions_list, version, left, mid - 1)

\* get_version(key, version)
GetVersion(vs, key, version) ==
    IF key \notin DOMAIN vs THEN NoRecord
    ELSE BinarySearch(vs[key], version, 0, Len(vs[key]) - 1)

\* get_at_time: the for loop, which breaks at the first record whose timestamp
\* is after the given time
RECURSIVE ScanAtTime(_, _, _, _)
ScanAtTime(versions_list, timestamp, i, result) ==
    IF i > Len(versions_list) THEN result
    ELSE IF versions_list[i].timestamp <= timestamp
         THEN ScanAtTime(versions_list, timestamp, i + 1, <<versions_list[i]>>)
         ELSE result

\* get_at_time(key, timestamp)
GetAtTime(vs, key, timestamp) ==
    IF key \notin DOMAIN vs THEN NoRecord
    ELSE ScanAtTime(vs[key], timestamp, 1, NoRecord)

\* get_all_keys(): the keys of current_versions
GetAllKeys(cur) == DOMAIN cur

\* get_current_version(key)
GetCurrentVersion(cur, key) == GetOr0(cur, key)

\* record._compute_hash() called by a reader on the j-th record of a key's list
\* (the readers return the stored objects)
ComputeHashCall(key, j) ==
    /\ key \in DOMAIN vm_versions
    /\ j \in 1..Len(vm_versions[key])
    /\ vm_versions' = [vm_versions EXCEPT ![key][j] = ComputeHash(@)]
    /\ ret' = [op |-> "_compute_hash", key |-> key, index |-> j,
               computed |-> vm_versions[key][j].hash = None]
    /\ UNCHANGED <<dbvars, extvars, current_versions, th>>

\* the records the manager holds
RECURSIVE SumLen(_, _)
SumLen(vs, ks) ==
    IF ks = {} THEN 0
    ELSE LET k == CHOOSE k \in ks : TRUE IN Len(vs[k]) + SumLen(vs, ks \ {k})
Records == SumLen(vm_versions, DOMAIN vm_versions)

----------------------------------------------------------------------------
(* SkipListCython: the ordered write buffer of the MemTable *)

\* the instance modelled: SkipListCython(max_level, max_size)
max_level == 2
max_size == 56

\* entry_size = key_len + value_len + 16
EntryOverhead == 16

SlKeys == {<<"a">>, <<"a", "b">>, <<"b">>}
SlValues == {<<"1">>, <<"2", "2">>}
SlVersions == {1}
SlTimes == {10}

\* a NULL pointer; node 0 is the header, nodes are numbered as allocated
NULL == 0 - 1
Header == 0

\* __cinit__: level 1, size 0, a header whose forward pointers are NULL
SkipListInit ==
    [node |-> [n \in {Header} |->
                 [key |-> <<>>, value |-> <<>>, version |-> 0, timestamp |-> 0,
                  level |-> max_level, forward |-> [i \in 1..max_level |-> NULL]]],
     level |-> 1, size |-> 0]

\* memcmp(x, y, n): the sign of the first byte that differs
RECURSIVE MemcmpFrom(_, _, _, _)
MemcmpFrom(x, y, n, i) ==
    IF i > n THEN 0
    ELSE IF Ord(x[i]) < Ord(y[i]) THEN 0 - 1
    ELSE IF Ord(x[i]) > Ord(y[i]) THEN 1
    ELSE MemcmpFrom(x, y, n, i + 1)

Memcmp(x, y, n) == MemcmpFrom(x, y, n, 1)

\* a comparison that puts the longer of two keys with a common prefix first
CmpLongerFirst(next_key, key) ==
    IF Len(next_key) = Len(key) THEN Memcmp(next_key, key, Len(key))
    ELSE LET min_len == IF Len(next_key) < Len(key) THEN Len(next_key) ELSE Len(key)
             cmp_result == Memcmp(next_key, key, min_len)
         IN  IF cmp_result = 0
             THEN (IF Len(next_key) > Len(key) THEN 0 - 1 ELSE 1)
             ELSE cmp_result

\* cmp_result of next_node.key against the key searched for
Cmp(next_key, key) ==
    IF Len(next_key) = Len(key) THEN Memcmp(next_key, key, Len(key))
    ELSE LET min_len == IF Len(next_key) < Len(key) THEN Len(next_key) ELSE Len(key)
             cmp_result == Memcmp(next_key, key, min_len)
         IN  IF cmp_result = 0
             THEN (IF Len(next_key) > Len(key) THEN 1 ELSE 0 - 1)
             ELSE cmp_result

\* the while loop of one level: walk forward[i] while the next key is smaller
RECURSIVE Advance(_, _, _, _)
Advance(node, current, i, key) ==
    LET next_node == node[current].forward[i]
    IN  IF next_node # NULL /\ Cmp(node[next_node].key, key) < 0
        THEN Advance(node, next_node, i, key)
        ELSE current

\* the for loop over the levels, top down: update[i] = current
RECURSIVE FindUpdate(_, _, _, _, _)
FindUpdate(node, current, i, key, update) ==
    IF i < 1 THEN update
    ELSE LET c == Advance(node, current, i, key)
         IN  FindUpdate(node, c, i - 1, key, [update EXCEPT ![i] = c])

\* the levels drawn for the items of a batch by _random_level
Levels(n) == [1..n -> 1..max_level]

RECURSIVE MaxOf(_, _)
MaxOf(levels, m) ==
    IF Len(levels) = 0 THEN m
    ELSE MaxOf(Tail(levels), IF Head(levels) > m THEN Head(levels) ELSE m)

\* "extend the level": self.level = max_node_level when that is larger
ExtendLevel(s, levels) == [s EXCEPT !.level = MaxOf(levels, s.level)]

\* the found branch: the node is kept, its value, version and timestamp replaced
UpdateNode(s, current, value, version, timestamp) ==
    [s EXCEPT !.size = (s.size - (Len(s.node[current].value) + EntryOverhead))
                          + (Len(value) + EntryOverhead),
              !.node[current].value = value,
              !.node[current].version = version,
              !.node[current].timestamp = timestamp]

\* the pointers of levels 1..node_level after splicing node n in behind update
RECURSIVE Splice(_, _, _, _, _)
Splice(node, update, n, node_level, i) ==
    IF i > node_level THEN node
    ELSE Splice([node EXCEPT ![n].forward[i] = node[update[i]].forward[i],
                             ![update[i]].forward[i] = n],
                update, n, node_level, i + 1)

\* the new-node branch
InsertNode(s, update, key, value, version, timestamp, node_level) ==
    LET n == Cardinality(DOMAIN s.node)
        fresh == [key |-> key, value |-> value, version |-> version,
                  timestamp |-> timestamp, level |-> node_level,
                  forward |-> [i \in 1..node_level |-> NULL]]
        node == [m \in DOMAIN s.node \cup {n} |-> IF m = n THEN fresh ELSE s.node[m]]
    IN  [s EXCEPT !.node = Splice(node, update, n, node_level, 1),
                  !.size = s.size + Len(key) + Len(value) + EntryOverhead]

\* one item that passed the size test: search, then update or insert
PutItem(s, key, value, version, timestamp, node_level) ==
    LET update == FindUpdate(s.node, Header, s.level, key,
                             [i \in 1..s.level |-> Header])
        current == s.node[update[1]].forward[1]
        found == /\ current # NULL
                 /\ Len(s.node[current].key) = Len(key)
                 /\ Memcmp(s.node[current].key, key, Len(key)) = 0
    IN  IF found THEN UpdateNode(s, current, value, version, timestamp)
        ELSE InsertNode(s, update, key, value, version, timestamp, node_level)

\* the insertion loop of put_batch, from item idx on
RECURSIVE PutBatchLoop(_, _, _, _, _, _)
PutBatchLoop(s, items, levels, timestamp, idx, success_count) ==
    IF idx > Len(items) THEN [sl |-> s, success_count |-> success_count]
    ELSE LET key == items[idx][1]
             value == items[idx][2]
             entry_size == Len(key) + Len(value) + EntryOverhead
         IN  IF s.size + entry_size > max_size
             THEN [sl |-> s, success_count |-> success_count]
             ELSE PutBatchLoop(PutItem(s, key, value, items[idx][3], timestamp,
                                       levels[idx]),
                               items, levels, timestamp, idx + 1, success_count + 1)

\* put_batch(items): nothing at all for an empty list
PutBatchResult(s, items, levels, timestamp) ==
    IF Len(items) = 0 THEN [sl |-> s, success_count |-> 0]
    ELSE PutBatchLoop(ExtendLevel(s, levels), items, levels, timestamp, 1, 0)

\* the nodes from n on along forward[0], in order
RECURSIVE ChainFrom(_, _)
ChainFrom(node, n) ==
    IF n = NULL THEN <<>> ELSE <<n>> \o ChainFrom(node, node[n].forward[1])

Chain(s) == ChainFrom(s.node, s.node[Header].forward[1])

SlPutBatch(items, levels, now) ==
    LET r == PutBatchResult(sl, items, levels, now)
    IN  /\ sl' = r.sl
        /\ ret' = [op |-> "sl_put_batch", success_count |-> r.success_count]
        /\ UNCHANGED <<dbvars, vmvars, flvars, envars, lsvars>>

\* put(key, value, version): put_batch of one item, result > 0
SlPut(key, value, version, node_level, now) ==
    LET r == PutBatchResult(sl, <<(<<key, value, version>>)>>, <<node_level>>, now)
    IN  /\ sl' = r.sl
        /\ ret' = [op |-> "sl_put", ok |-> r.success_count > 0]
        /\ UNCHANGED <<dbvars, vmvars, flvars, envars, lsvars>>

----------------------------------------------------------------------------
(* Database.flush: the persistence coordinator *)

\* _flush_debounce_interval, in milliseconds; one clock tick is
\* FlushDebounceInterval / FlushTicks
FlushDebounceInterval == 100

\* the callers of flush; Timer is the background runner of a deferred flush
Callers == {1, 2}
Timer == 0

\* the sub-steps of a pass: the log and the LSM tree always, the snapshots
\* of the other components under force_sync
CriticalSteps == <<"wal", "lsm">>
SnapshotSteps == <<"bplus", "merkle", "version", "index", "metadata">>

\* an order that saves the snapshots before the log and the write buffer
StepsSnapshotsFirst(force_sync) ==
    IF force_sync THEN SnapshotSteps \o CriticalSteps ELSE CriticalSteps

\* the order of a pass
Steps(force_sync) ==
    IF force_sync THEN CriticalSteps \o SnapshotSteps ELSE CriticalSteps

FlushArgs == [async_mode : BOOLEAN, force_sync : BOOLEAN, debounce : BOOLEAN]
DefaultArgs == [async_mode |-> FALSE, force_sync |-> FALSE, debounce |-> TRUE]

\* no pass running, nothing pending, no flush started or completed yet; since
\* and started count the ticks since the last pass completed and started,
\* up to FlushTicks, which stands for the interval or more; handle is the
\* reference a C client holds to the database, closing its call of amdb_close
FlushInit ==
    [is_flushing |-> FALSE, pending |-> FALSE, since |-> FlushTicks,
     pc |-> [t \in Callers \cup {Timer} |-> "idle"],
     args |-> [t \in Callers \cup {Timer} |-> DefaultArgs],
     steps |-> <<>>, attempted |-> <<>>, failed |-> {},
     started |-> FlushTicks, forced |-> FALSE, force_sync |-> FALSE,
     handle |-> TRUE, closing |-> FALSE]

\* a debounce test that never finds the last flush too recent
TooSoonNever(f, a) == FALSE

\* debounce: the last flush completed less than the interval ago
TooSoon(f, a) == a.debounce /\ f.since < FlushTicks

\* a test of _is_flushing that never finds a pass running
BusyNever(f) == FALSE

\* the test of _is_flushing under _flush_lock
Busy(f) == f.is_flushing

FlushReturn(t, status) == [op |-> "flush", ok |-> TRUE, status |-> status]

\* a physical pass begins: it covers every request made so far
StartPass(f, t, a) ==
    [f EXCEPT !.is_flushing = TRUE, !.pending = FALSE,
              !.pc[t] = "run", !.args[t] = DefaultArgs,
              !.steps = Steps(a.force_sync), !.attempted = <<>>, !.failed = {},
              !.started = 0, !.forced = ~a.debounce,
              !.force_sync = a.force_sync]

\* the request is left to a later pass
MarkPending(f, t) == [f EXCEPT !.pending = TRUE, !.pc[t] = "idle", !.args[t] = DefaultArgs]

\* flush(async_mode, force_sync, debounce), up to the start of a pass
FlushCall(t, a) ==
    /\ fl.pc[t] = "idle"
    /\ IF TooSoon(fl, a)
       THEN /\ fl' = MarkPending(fl, t)
            /\ ret' = FlushReturn(t, "deferred")
       ELSE IF Busy(fl)
       THEN IF a.async_mode
            THEN /\ fl' = MarkPending(fl, t)
                 /\ ret' = FlushReturn(t, "pending")
            ELSE /\ fl' = [fl EXCEPT !.pending = TRUE, !.pc[t] = "wait", !.args[t] = a]
                 /\ UNCHANGED ret
       ELSE /\ fl' = StartPass(fl, t, a)
            /\ UNCHANGED ret
    /\ UNCHANGED <<dbvars, vmvars, slvars, envars, lsvars>>

\* a blocked caller after the running pass has completed: its own pass if
\* its request is still pending
Wake(t) ==
    /\ fl.pc[t] = "wait"
    /\ ~Busy(fl)
    /\ IF ~fl.pending
       THEN /\ fl' = [fl EXCEPT !.pc[t] = "idle", !.args[t] = DefaultArgs]
            /\ ret' = FlushReturn(t, "persisted")
       ELSE IF TooSoon(fl, fl.args[t])
       THEN /\ fl' = MarkPending(fl, t)
            /\ ret' = FlushReturn(t, "deferred")
       ELSE /\ fl' = StartPass(fl, t, fl.args[t])
            /\ UNCHANGED ret
    /\ UNCHANGED <<dbvars, vmvars, slvars, envars, lsvars>>

\* a sub-step that lets its failure end the pass
SubStepAborts(t, ok) ==
    /\ fl.pc[t] = "run"
    /\ Len(fl.attempted) < Len(fl.steps)
    /\ LET step == fl.steps[Len(fl.attempted) + 1]
       IN  IF ok
           THEN fl' = [fl EXCEPT !.attempted = Append(@, step)]
           ELSE fl' = [fl EXCEPT !.attempted = Append(@, step),
                                 !.failed = @ \cup {step},
                                 !.is_flushing = FALSE, !.since = 0,
                                 !.pc[t] = "idle", !.args[t] = DefaultArgs]
    /\ UNCHANGED <<ret, dbvars, vmvars, slvars, envars, lsvars>>

\* the next sub-step of the running pass: its failure is logged, not raised
SubStep(t, ok) ==
    /\ fl.pc[t] = "run"
    /\ Len(fl.attempted) < Len(fl.steps)
    /\ LET step == fl.steps[Len(fl.attempted) + 1]
       IN  fl' = [fl EXCEPT !.attempted = Append(@, step),
                            !.failed = IF ok THEN @ ELSE @ \cup {step}]
    /\ UNCHANGED <<ret, dbvars, vmvars, slvars, envars, lsvars>>

\* the pass is over: back to idle, the interval starts anew
Finish(t) ==
    /\ fl.pc[t] = "run"
    /\ Len(fl.attempted) = Len(fl.steps)
    /\ fl' = [fl EXCEPT !.is_flushing = FALSE, !.since = 0,
                        !.pc[t] = "idle", !.args[t] = DefaultArgs,
                        !.steps = <<>>, !.attempted = <<>>, !.failed = {},
                        !.force_sync = FALSE]
    /\ ret' = IF t = Timer THEN ret
              ELSE FlushReturn(t, IF fl.failed = {} THEN "persisted" ELSE "partial")
    /\ UNCHANGED <<dbvars, vmvars, slvars, envars, lsvars>>

\* a coordinator with nothing that runs a deferred flush
DeferredNever ==
    /\ FALSE
    /\ UNCHANGED vars

\* the deferred flush: pending, nothing running, the interval elapsed
Deferred ==
    /\ fl.pc[Timer] = "idle"
    /\ fl.pending
    /\ ~Busy(fl)
    /\ ~TooSoon(fl, DefaultArgs)
    /\ fl' = StartPass(fl, Timer, DefaultArgs)
    /\ UNCHANGED <<ret, dbvars, vmvars, slvars, envars, lsvars>>

\* the clock advances by one tick
Tick ==
    /\ fl.since < FlushTicks \/ fl.started < FlushTicks
    /\ fl' = [fl EXCEPT !.since = IF @ < FlushTicks THEN @ + 1 ELSE @,
                        !.started = IF @ < FlushTicks THEN @ + 1 ELSE @]
    /\ UNCHANGED <<ret, dbvars, vmvars, slvars, envars, lsvars>>

----------------------------------------------------------------------------
(* Database: the write flow, the flush flow and a restart *)

EnKeys == {<<"a">>, <<"b">>}
EnValues == {<<"1">>, <<"2">>}

\* nothing written, nothing logged, nothing on disk
EngineInit ==
    [mem |-> [k \in EnKeys |-> <<>>],       \* per key, the values of its versions
     wal_buf |-> <<>>,                      \* records handed to the log, not yet on disk
     wal_disk |-> <<>>,                     \* records of the log on stable storage
     disk |-> [k \in EnKeys |-> <<>>],      \* what the last flush made durable
     disk_lsn |-> 0,                        \* the last write that flush covered
     lsn |-> 0, flushed |-> FALSE, restarts |-> 0]

\* steps 1-3 of the write flow: a new version of the key, in memory
WriteMem(m, k, v) == [m EXCEPT ![k] = Append(@, v)]

\* step 4 of the write flow: the record is handed to the log, which writes
\* it asynchronously
LogPut(e, k, v) ==
    [e EXCEPT !.lsn = @ + 1,
              !.wal_buf = Append(@, [lsn |-> e.lsn + 1, key |-> k, value |-> v])]

\* put(key, value): acknowledged when the write flow is through
DbPut(k, v) ==
    /\ en' = [LogPut(en, k, v) EXCEPT !.mem = WriteMem(en.mem, k, v)]
    /\ ret' = [op |-> "db_put", key |-> k, lsn |-> en.lsn + 1, ok |-> TRUE]
    /\ UNCHANGED <<dbvars, vmvars, slvars, flvars, lsvars>>

\* delete(key): the same flow with the deletion marker as the value
DbDelete(k) ==
    /\ en' = [LogPut(en, k, DELETED) EXCEPT !.mem = WriteMem(en.mem, k, DELETED)]
    /\ ret' = [op |-> "db_delete", key |-> k, lsn |-> en.lsn + 1, ok |-> TRUE]
    /\ UNCHANGED <<dbvars, vmvars, slvars, flvars, lsvars>>

\* the log writes its oldest pending record and forces it to disk
WalWrite ==
    /\ Len(en.wal_buf) > 0
    /\ en' = [en EXCEPT !.wal_disk = Append(@, Head(en.wal_buf)),
                        !.wal_buf = Tail(@)]
    /\ UNCHANGED <<ret, dbvars, vmvars, slvars, flvars, lsvars>>

\* flush(...): a call the debounce merges does no I/O; a pass flushes the
\* memory to disk and forces the log (os.fsync)
DbFlush(a, too_soon) ==
    /\ IF a.debounce /\ too_soon
       THEN en' = en
       ELSE en' = [en EXCEPT !.disk = en.mem, !.disk_lsn = en.lsn,
                             !.wal_disk = @ \o en.wal_buf, !.wal_buf = <<>>,
                             !.flushed = TRUE]
    /\ ret' = [op |-> "db_flush", ok |-> TRUE]
    /\ UNCHANGED <<dbvars, vmvars, slvars, flvars, lsvars>>

\* replay in append order of the records the disk state does not reflect
RECURSIVE Replay(_, _, _)
Replay(m, wal, disk_lsn) ==
    IF Len(wal) = 0 THEN m
    ELSE Replay(IF Head(wal).lsn > disk_lsn
                THEN WriteMem(m, Head(wal).key, Head(wal).value) ELSE m,
                Tail(wal), disk_lsn)

\* a crash and the restart: memory and what the log had not written are
\* gone; the state is rebuilt from the disk and the log
DbRestart ==
    /\ en' = [en EXCEPT !.mem = Replay(en.disk, en.wal_disk, en.disk_lsn),
                        !.wal_buf = <<>>, !.restarts = @ + 1]
    /\ ret' = [op |-> "db_restart", ok |-> TRUE]
    /\ UNCHANGED <<dbvars, vmvars, slvars, flvars, lsvars>>

\* get(key, version): the value of that version, the latest without one
DbGet(m, k, version) ==
    IF Len(version) = 0
    THEN (IF Len(m[k]) = 0 THEN None ELSE m[k][Len(m[k])])
    ELSE (IF version[1] \in 1..Len(m[k]) THEN m[k][version[1]] ELSE None)

\* get_root_hash(): the commitment to the keys and their current values,
\* a fixed digest for the empty store
DbRootHash(m) ==
    LET live == SelectSeq(<<(<<"a">>), (<<"b">>)>>, LAMBDA k : Len(m[k]) > 0)
    IN  IF Len(live) = 0 THEN ZeroRoot
        ELSE SHA256(Join([i \in 1..Len(live) |->
                            live[i] \o m[live[i]][Len(m[live[i]])]]))

----------------------------------------------------------------------------
(* The LSM tree's flush: the hand-off of the memtable.  The memtable is    *)
(* swapped for a fresh one and becomes the immutable memtable, which the   *)
(* background persists; while an earlier immutable memtable is still being *)
(* persisted the flush waits, at most MaxWaitCount times.                  *)

\* the limit on the number of waits
MaxWaitCount == 100

\* nothing in flight: no call, no immutable memtable, no memtable left behind
LsmInit ==
    [pc |-> "idle", wait_count |-> 0, immutable |-> FALSE, left |-> FALSE]

LsmReturn(handed_off) == [op |-> "lsm_flush", handed_off |-> handed_off]

\* flush() of the LSM tree is entered
LsmFlush ==
    /\ lsm.pc = "idle"
    /\ lsm' = [lsm EXCEPT !.pc = "wait", !.wait_count = 0]
    /\ UNCHANGED <<ret, dbvars, vmvars, slvars, flvars, envars>>

\* the earlier immutable memtable is still in flight: wait once more
LsmRetry ==
    /\ lsm.pc = "wait"
    /\ lsm.immutable
    /\ lsm.wait_count < MaxWaitCount
    /\ lsm' = [lsm EXCEPT !.wait_count = @ + 1]
    /\ UNCHANGED <<ret, dbvars, vmvars, slvars, flvars, envars>>

\* no immutable memtable in flight: the memtable is handed off
LsmSwap ==
    /\ lsm.pc = "wait"
    /\ ~lsm.immutable
    /\ lsm' = [lsm EXCEPT !.pc = "idle", !.immutable = TRUE, !.left = FALSE]
    /\ ret' = LsmReturn(TRUE)
    /\ UNCHANGED <<dbvars, vmvars, slvars, flvars, envars>>

\* a flush that has no limit on its waits
LsmGiveUpNever ==
    /\ FALSE
    /\ UNCHANGED vars

\* the limit is reached: the flush returns and leaves the memtable to the
\* background
LsmGiveUp ==
    /\ lsm.pc = "wait"
    /\ lsm.immutable
    /\ lsm.wait_count = MaxWaitCount
    /\ lsm' = [lsm EXCEPT !.pc = "idle", !.left = TRUE]
    /\ ret' = LsmReturn(FALSE)
    /\ UNCHANGED <<dbvars, vmvars, slvars, flvars, envars>>

\* the background has persisted the immutable memtable; it goes on with a
\* memtable that a flush left behind
LsmBackground ==
    /\ lsm.immutable
    /\ lsm' = IF lsm.left THEN [lsm EXCEPT !.left = FALSE]
              ELSE [lsm EXCEPT !.immutable = FALSE]
    /\ UNCHANGED <<ret, dbvars, vmvars, slvars, flvars, envars>>

----------------------------------------------------------------------------
(* The C binding: amdb_close and amdb_put.  The client is one thread, the  *)
(* caller CClient of the coordinator.                                      *)

CClient == 1

AMDB_OK == 0
AMDB_ERROR == 0 - 1
AMDB_INVALID_ARG == 0 - 3

\* amdb_close up to the return of flush: PyObject_CallMethod(db, "flush", NULL)
\* calls flush() with its defaults
AmdbClose ==
    /\ fl.handle /\ ~fl.closing
    /\ fl.pc[CClient] = "idle"
    /\ IF TooSoon(fl, DefaultArgs)
       THEN /\ fl' = [MarkPending(fl, CClient) EXCEPT !.closing = TRUE]
            /\ ret' = FlushReturn(CClient, "deferred")
       ELSE IF Busy(fl)
       THEN /\ fl' = [fl EXCEPT !.pending = TRUE, !.pc[CClient] = "wait",
                                !.args[CClient] = DefaultArgs, !.closing = TRUE]
            /\ UNCHANGED ret
       ELSE /\ fl' = [StartPass(fl, CClient, DefaultArgs) EXCEPT !.closing = TRUE]
            /\ UNCHANGED ret
    /\ UNCHANGED <<dbvars, vmvars, slvars, envars, lsvars>>

\* amdb_close after flush has returned: the result is dropped, the handle is
\* released, the status is AMDB_OK
AmdbCloseRelease ==
    /\ fl.handle /\ fl.closing
    /\ fl.pc[CClient] = "idle"
    /\ fl' = [fl EXCEPT !.handle = FALSE, !.closing = FALSE]
    /\ ret' = [op |-> "amdb_close", status |-> AMDB_OK, flush |-> ret.status]
    /\ UNCHANGED <<dbvars, vmvars, slvars, envars, lsvars>>

\* a null pointer, and the 32 bytes of a root hash
NullPtr == <<"NULL">>
RootHashLen == 32

\* what db.put can give back to the binding: an exception, a (success,
\* root_hash) tuple with a bytes or a None root_hash, or another object
Outcome(kind, success, is_bytes, root_hash) ==
    [kind |-> kind, success |-> success, is_bytes |-> is_bytes,
     root_hash |-> root_hash]
HashBytes(n) == [i \in 1..n |-> "h"]
PutOutcomes ==
    {Outcome("raise", FALSE, FALSE, <<>>), Outcome("other", FALSE, FALSE, <<>>)}
    \cup {Outcome("tuple", success, TRUE, HashBytes(n)) :
              success \in BOOLEAN, n \in {0, RootHashLen - 1, RootHashLen, RootHashLen + 1}}
    \cup {Outcome("tuple", success, FALSE, <<>>) : success \in BOOLEAN}

\* handle_python_error
HandlePythonError(occurred) == IF occurred THEN AMDB_ERROR ELSE AMDB_OK

\* amdb_put: the status it returns
AmdbPutStatus(handle, key, value, result) ==
    IF ~handle \/ key = NullPtr \/ value = NullPtr THEN AMDB_INVALID_ARG
    ELSE IF result.kind = "raise" THEN HandlePythonError(TRUE)
    ELSE AMDB_OK

\* amdb_put: the caller's buffer root_hash after the call
AmdbPutRootHash(handle, key, value, result, root_hash) ==
    IF ~handle \/ key = NullPtr \/ value = NullPtr THEN root_hash
    ELSE IF /\ result.kind = "tuple"
            /\ result.success /\ result.is_bytes
            /\ Len(result.root_hash) >= RootHashLen
         THEN SubSeq(result.root_hash, 1, RootHashLen)
         ELSE root_hash

\* amdb_put(handle, key, key_len, value, value_len, root_hash), where db.put
\* gives result
AmdbPut(handle, key, value, result, root_hash) ==
    /\ ret' = [op |-> "amdb_put", handle |-> handle, key |-> key, value |-> value,
               result |-> result,
               status |-> AmdbPutStatus(handle, key, value, result),
               root_hash |-> AmdbPutRootHash(handle, key, value, result, root_hash)]
    /\ UNCHANGED <<dbvars, vmvars, extvars>>

----------------------------------------------------------------------------
(* Specifications *)

Items(ks) == ks \X Values
Batches(ks) == UNION {[1..n -> Items(ks)] : n \in 0..MaxBatch}

Init ==
    /\ data = [i \in Stores |-> <<>>]
    /\ versions = [i \in Stores |-> [k \in Keys |-> <<>>]]
    /\ current_version = [i \in Stores |-> 0]
    /\ ret = Result("init", 1, None, None, TRUE, None, <<>>)
    /\ vm_versions = [k \in {} |-> <<>>]
    /\ current_versions = [k \in {} |-> 0]
    /\ th = [t \in Threads |-> IdleThread]
    /\ sl = SkipListInit
    /\ fl = FlushInit
    /\ en = EngineInit
    /\ lsm = LsmInit

\* one store, every operation
Next ==
    \/ \E k \in SpecKeys, v \in Values, now \in Times :
          current_version[1] < MaxVersion /\ Put(1, k, v, now)
    \/ \E items \in Batches(SpecKeys) : \E nows \in [1..Len(items) -> Times] :
          /\ current_version[1] + Len(items) <= MaxVersion
          /\ BatchPut(1, items, nows)
    \/ \E k \in SpecKeys : current_version[1] < MaxVersion /\ Delete(1, k)
    \/ \E f \in BOOLEAN : Flush(1, f)

Spec == Init /\ [][Next]_vars

\* two stores, written independently by put and batch_put
PairNext ==
    \E i \in Stores :
        \/ \E k \in Keys, v \in Values, now \in PairTimes :
              /\ current_version[1] + current_version[2] < MaxPairWrites
              /\ Put(i, k, v, now)
        \/ \E items \in Batches(Keys) : \E nows \in [1..Len(items) -> PairTimes] :
              /\ current_version[1] + current_version[2] + Len(items) <= MaxPairWrites
              /\ BatchPut(i, items, nows)

PairSpec == Init /\ [][PairNext]_vars

\* the version manager, called by one thread at a time
VItems == VKeys \X VValues
VBatches == UNION {[1..n -> VItems] : n \in 0..MaxVmBatch}

VmNext ==
    \/ \E items \in VBatches, pad \in Pads, now \in Times :
          /\ Records + Len(items) <= MaxVmRecords
          /\ CreateVersionsBatch(items, pad, now)
    \/ \E key \in VKeys, value \in VValues, now \in Times :
          /\ Records < MaxVmRecords
          /\ CreateVersion(key, value, now)

VmSpec == Init /\ [][VmNext]_vars

\* records built from small sets of field values: versions 1 and 11, times
\* 1.0 and 11.0, values with and without the bytes of a digest at their end
EncVersions == {1, 11}
EncTimes == {10, 110}
EncPrevHashes == {None, SHA256(<<"p">>)}
EncValues == {<<"x">>, <<"y">>, <<"x">> \o SHA256(<<"p">>)}
EncRecords ==
    {NewVersion(version, timestamp, value, prev_hash) :
        version \in EncVersions, timestamp \in EncTimes,
        value \in EncValues, prev_hash \in EncPrevHashes}

EncNext == \E r1 \in EncRecords, r2 \in EncRecords : Digests(r1, r2)

EncSpec == Init /\ [][EncNext]_vars

\* the version manager and readers that ask records for their digest
HashNext ==
    \/ \E items \in VBatches, pad \in Pads, now \in Times :
          /\ Records + Len(items) <= MaxHashRecords
          /\ CreateVersionsBatch(items, pad, now)
    \/ \E key \in VKeys, value \in VValues, now \in Times :
          /\ Records < MaxHashRecords
          /\ CreateVersion(key, value, now)
    \/ \E key \in VKeys, j \in 1..MaxHashRecords : ComputeHashCall(key, j)

HashSpec == Init /\ [][HashNext]_vars

\* the version manager with its readers, called by one thread at a time
OptVersions == {<<>>} \cup {<<n>> : n \in 0..MaxReadRecords + 1}

ReadNext ==
    \/ \E items \in VBatches, pad \in Pads, now \in Times :
          /\ Records + Len(items) <= MaxReadRecords
          /\ CreateVersionsBatch(items, pad, now)
    \/ \E key \in VKeys, value \in VValues, now \in Times :
          /\ Records < MaxReadRecords
          /\ CreateVersion(key, value, now)
    \/ \E key \in VKeys, start_version \in OptVersions, end_version \in OptVersions :
          VmGetHistory(key, start_version, end_version)

ReadSpec == Init /\ [][ReadNext]_vars

\* one skip list, written by put and put_batch
SlItems == SlKeys \X SlValues \X SlVersions
SlBatches == UNION {[1..n -> SlItems] : n \in 0..MaxSlBatch}

SlNext ==
    \/ \E items \in SlBatches : \E levels \in Levels(Len(items)), now \in SlTimes :
          SlPutBatch(items, levels, now)
    \/ \E key \in SlKeys, value \in SlValues, version \in SlVersions,
          node_level \in 1..max_level, now \in SlTimes :
          SlPut(key, value, version, node_level, now)

SlSpec == Init /\ [][SlNext]_vars

\* the coordinator, called by two threads
FlushNext ==
    \/ \E t \in Callers, a \in FlushArgs : FlushCall(t, a)
    \/ \E t \in Callers : Wake(t)
    \/ \E t \in Callers \cup {Timer}, ok \in BOOLEAN :
          /\ ok \/ Cardinality(fl.failed) < MaxFailures
          /\ SubStep(t, ok)
    \/ \E t \in Callers \cup {Timer} : Finish(t)
    \/ Deferred
    \/ Tick

FlushSpec == Init /\ [][FlushNext]_vars

\* a running pass goes on, the clock advances, the deferred flush is run
FlushFairness ==
    /\ WF_vars(Tick)
    /\ WF_vars(Deferred)
    /\ \A t \in Callers \cup {Timer} :
          /\ WF_vars(\E ok \in BOOLEAN : SubStep(t, ok))
          /\ WF_vars(Finish(t))
    /\ \A t \in Callers : WF_vars(Wake(t))

FairFlushSpec == FlushSpec /\ FlushFairness

\* the durable engine: writes, the log writer, flushes, one crash
EngineNext ==
    \/ \E k \in EnKeys, v \in EnValues : en.lsn < MaxEnWrites /\ DbPut(k, v)
    \/ \E k \in EnKeys : en.lsn < MaxEnWrites /\ DbDelete(k)
    \/ WalWrite
    \/ \E a \in FlushArgs, too_soon \in BOOLEAN : DbFlush(a, too_soon)
    \/ en.restarts < MaxRestarts /\ DbRestart

EngineSpec == Init /\ [][EngineNext]_vars

\* the LSM tree's flush and the background that persists immutable memtables
LsmNext ==
    \/ LsmFlush
    \/ LsmRetry
    \/ LsmSwap
    \/ LsmGiveUp
    \/ LsmBackground

\* the thread in flush keeps running; nothing is assumed of the background
LsmFairness ==
    /\ WF_vars(LsmRetry)
    /\ WF_vars(LsmSwap)
    /\ WF_vars(LsmGiveUp)

LsmSpec == Init /\ [][LsmNext]_vars /\ LsmFairness

\* a C client that flushes and closes, with the coordinator's background
CloseNext ==
    \/ \E a \in FlushArgs :
          fl.handle /\ ~fl.closing /\ FlushCall(CClient, a)
    \/ fl.handle /\ Wake(CClient)
    \/ \E t \in {CClient, Timer}, ok \in BOOLEAN :
          /\ fl.handle
          /\ ok \/ Cardinality(fl.failed) < MaxFailures
          /\ SubStep(t, ok)
    \/ \E t \in {CClient, Timer} : fl.handle /\ Finish(t)
    \/ fl.handle /\ Deferred
    \/ fl.handle /\ Tick
    \/ AmdbClose
    \/ AmdbCloseRelease

CloseSpec == Init /\ [][CloseNext]_vars

\* a C client that calls amdb_put
CBuffers == {[i \in 1..RootHashLen |-> "0"], [i \in 1..RootHashLen |-> "u"]}
CPutNext ==
    \E handle \in BOOLEAN, key \in {NullPtr} \cup EnKeys,
       value \in {NullPtr} \cup EnValues, result \in PutOutcomes,
       root_hash \in CBuffers :
        AmdbPut(handle, key, value, result, root_hash)

CPutSpec == Init /\ [][CPutNext]_vars

\* the version manager, called by two threads; no batch repeats a key
ConcBatches ==
    {b \in VBatches : \A i, j \in 1..Len(b) : b[i][1] = b[j][1] => i = j}

\* the items the threads in a call have still to append
RECURSIVE InFlight(_)
InFlight(ts) ==
    IF ts = {} THEN 0
    ELSE LET t == CHOOSE t \in ts : TRUE
         IN  (IF th[t].pc = "idle" THEN 0
              ELSE IF th[t].pc = "update" THEN 0
              ELSE Len(th[t].items) - th[t].idx + 1)
             + InFlight(ts \ {t})

ConcNext ==
    \E t \in Threads :
        \/ \E items \in ConcBatches, pad \in Pads, now \in Times :
              /\ Records + InFlight(Threads) + Len(items) <= MaxConcRecords
              /\ Call(t, items, pad, now)
        \/ ReadVer(t)
        \/ AppendItem(t)
        \/ Return(t)

ConcSpec == Init /\ [][ConcNext]_vars

----------------------------------------------------------------------------
(* Properties of the version manager *)

\* C1: called sequentially, the records of every key carry the version
\* numbers 1..M in list order, with no gap and no repeat, repeated keys of
\* one batch included.
C1_VersionsSequential ==
    \A k \in DOMAIN vm_versions :
        \A j \in 1..Len(vm_versions[k]) : vm_versions[k][j].version = j

\* C2: in every key's list each record's prev_hash is the digest of the
\* record before it, and only the first record has no prev_hash, whatever
\* the size of the batches that created them.
C2_HashChainVerifies ==
    \A k \in DOMAIN vm_versions :
        \A j \in 1..Len(vm_versions[k]) :
            IF j = 1
            THEN vm_versions[k][j].prev_hash = None
            ELSE vm_versions[k][j].prev_hash = SHA256(Content(vm_versions[k][j - 1]))

\* C3: when no thread is inside create_versions_batch, the calls made so
\* far, by any threads, have numbered every key's records 1..n without a
\* repeat or a gap, and the key's current version is the number of its
\* records.
C3_ConcurrentMinting ==
    (\A t \in Threads : th[t].pc = "idle") =>
        \A k \in DOMAIN vm_versions :
            /\ \A j \in 1..Len(vm_versions[k]) : vm_versions[k][j].version = j
            /\ GetOr0(current_versions, k) = Len(vm_versions[k])

----------------------------------------------------------------------------
(* Properties of the engine *)

\* the value the last item of a batch that writes k gives it, or None
RECURSIVE LastWrite(_, _)
LastWrite(items, k) ==
    IF items = <<>> THEN None
    ELSE IF items[Len(items)][1] = k THEN items[Len(items)][2]
    ELSE LastWrite(SubSeq(items, 1, Len(items) - 1), k)

\* what every get can return, of one store
AllGets(d, vs) ==
    [k \in Keys, r \in 0..(MaxVersion + 1) |->
        <<Get(d, vs, k, NoVersion), Get(d, vs, k, <<r>>)>>]

C4_ReadAfterWrite ==
    /\ ret.op = "put" =>
          Get(data[ret.store], versions[ret.store], ret.key, NoVersion) = ret.value
    /\ ret.op = "batch_put" =>
          \A k \in Keys :
              LastWrite(ret.items, k) # None =>
                  Get(data[ret.store], versions[ret.store], k, NoVersion)
                      = LastWrite(ret.items, k)

C4_FlushStep ==
    ret'.op = "flush" =>
        \A i \in Stores : AllGets(data'[i], versions'[i]) = AllGets(data[i], versions[i])

\* C4: once put (or batch_put) has returned, get of the key returns the value
\* written, with no flush in between; and no flush call, whatever its flag,
\* changes the result of any get.
C4_ReadsIndependentOfFlush == []C4_ReadAfterWrite /\ [][C4_FlushStep]_vars

C4_Witness ==
    /\ ret.op = "flush"
    /\ Get(data[1], versions[1], <<"a">>, NoVersion) = <<"2">>
    /\ Get(data[1], versions[1], <<"a">>, <<1>>) = <<"1">>

\* C5: after delete(k) of a key that holds a value, get(k) returns None, and
\* the tombstone is an entry of get_history(k).
C5_DeleteHidesValue ==
    (ret.op = "delete" /\ ret.ok) =>
        /\ Get(data[ret.store], versions[ret.store], ret.key, NoVersion) = None
        /\ \E j \in 1..Len(GetHistory(versions[ret.store], ret.key)) :
              GetHistory(versions[ret.store], ret.key)[j].value = DELETED

\* the positions of the records of list l with version <= r
UpTo(l, r) == {j \in 1..Len(l) : l[j].version <= r}

\* C6: get(k, r) returns the value of the record of k with the greatest
\* version <= r, and None when k has no such record; and in the store that
\* put(a, 1), put(a, 2) leave, get(a) is 2 and get(a, version=1) is 1.
C6_VersionedRead ==
    /\ \A k \in Keys, r \in 0..(MaxVersion + 1) :
          LET l == versions[1][k]
          IN  Get(data[1], versions[1], k, <<r>>) =
                 IF UpTo(l, r) = {} THEN None
                 ELSE l[CHOOSE j \in UpTo(l, r) :
                            \A j2 \in UpTo(l, r) : l[j2].version <= l[j].version].value
    /\ ( /\ current_version[1] = 2
         /\ Len(versions[1][<<"a">>]) = 2
         /\ versions[1][<<"a">>][1].value = <<"1">>
         /\ versions[1][<<"a">>][2].value = <<"2">>
         /\ data[1] = << <<(<<"a">>), (<<"2">>)>> >> )
       => /\ Get(data[1], versions[1], <<"a">>, NoVersion) = <<"2">>
          /\ Get(data[1], versions[1], <<"a">>, <<1>>) = <<"1">>
          /\ Get(data[1], versions[1], <<"a">>, <<2>>) = <<"2">>

C6_Witness ==
    /\ current_version[1] = 3
    /\ Len(versions[1][<<"a">>]) = 2
    /\ versions[1][<<"a">>][1].version = 1
    /\ versions[1][<<"a">>][2].version = 3
    /\ Get(data[1], versions[1], <<"a">>, <<2>>) = <<"1">>
    /\ Get(data[1], versions[1], <<"a">>, <<3>>) = <<"2">>
    /\ Get(data[1], versions[1], <<"b">>, <<1>>) = None

\* C7: the i-th record of every key's history has version i, whatever was
\* written to other keys in between; a delete adds a record as a put does.
C7_PerKeyVersions ==
    \A k \in Keys :
        \A j \in 1..Len(GetHistory(versions[1], k)) :
            GetHistory(versions[1], k)[j].version = j

\* C8: the digest put and batch_put return is what get_root_hash() returns
\* right after the call.
C8_PutReturnsRoot ==
    ret.op \in {"put", "batch_put"} => ret.digest = GetRootHash(data[ret.store])

\* data.keys(), as a set
KeySet(d) == {d[i][1] : i \in 1..Len(d)}

\* C9: two stores that puts and batch_puts have left with the same set of
\* keys have the same root, whatever the order, the values and the
\* overwrites.
C9_RootOfKeySet ==
    KeySet(data[1]) = KeySet(data[2]) => GetRootHash(data[1]) = GetRootHash(data[2])

C9_Witness ==
    /\ KeySet(data[1]) = KeySet(data[2])
    /\ Len(data[1]) = 2
    /\ DictKeys(data[1]) # DictKeys(data[2])
    /\ \A k \in KeySet(data[1]) : DictGet(data[1], k) # DictGet(data[2], k)

\* C10: two stores whose key sets differ have different roots.
C10_RootCommitsToKeySet ==
    KeySet(data[1]) # KeySet(data[2]) => GetRootHash(data[1]) # GetRootHash(data[2])

\* a delete call returns for a key that data does not hold
C19_DeleteMissingStep ==
    (ret'.op = "delete" /\ ~DictHas(data[ret'.store], ret'.key)) =>
        /\ ret'.ok = FALSE
        /\ data' = data /\ versions' = versions
        /\ current_version' = current_version
        /\ GetRootHash(data'[ret'.store]) = GetRootHash(data[ret'.store])
        /\ \A k \in Keys : GetHistory(versions'[ret'.store], k)
                              = GetHistory(versions[ret'.store], k)

\* C19: delete of a key that was never written returns False, raises
\* nothing, and leaves the data map, every history, the version counter and
\* the root hash as they were.
C19_DeleteMissingIsNoOp == [][C19_DeleteMissingStep]_vars

C19_Witness ==
    /\ ret.op = "delete" /\ ret.ok = FALSE
    /\ ~DictHas(data[1], ret.key)
    /\ Len(data[1]) > 0
    /\ current_version[1] = 2

----------------------------------------------------------------------------
(* Properties of the readers of the version manager *)

\* the positions of the records of list l that the range start..end admits
Admitted(l, start_version, end_version) ==
    {j \in 1..Len(l) :
        /\ (Len(start_version) = 0 \/ start_version[1] <= l[j].version)
        /\ (Len(end_version) = 0 \/ l[j].version <= end_version[1])}

C20_Returned ==
    ret.op = "get_history" =>
        LET l == GetList(vm_versions, ret.key)
            P == Admitted(l, ret.start_version, ret.end_version)
        IN  /\ Len(ret.out) = Cardinality(P)
            /\ \A j \in P : ret.out[Cardinality({p \in P : p <= j})] = l[j]

C20_ReadOnlyStep ==
    ret'.op = "get_history" =>
        /\ vm_versions' = vm_versions
        /\ current_versions' = current_versions

\* C20: get_history(key, start, end) returns exactly the records of the key
\* with start <= version <= end, both bounds included, in list order; a
\* missing start admits from the first record on, a missing end through the
\* last; an unknown key gives the empty list; the call changes nothing in
\* the manager.
C20_HistoryRange == []C20_Returned /\ [][C20_ReadOnlyStep]_vars

C20_Witness ==
    /\ ret.op = "get_history"
    /\ Len(GetList(vm_versions, ret.key)) = 2
    /\ ret.start_version = <<2>> /\ ret.end_version = <<2>>
    /\ Len(ret.out) = 1 /\ ret.out[1].version = 2

----------------------------------------------------------------------------
(* Properties of the skip list *)

\* the nodes from n on along forward[i]
RECURSIVE LevelChainFrom(_, _, _)
LevelChainFrom(node, n, i) ==
    IF n = NULL THEN <<>> ELSE <<n>> \o LevelChainFrom(node, node[n].forward[i], i)

Increasing(node, t) ==
    \A j \in 1..Len(t) - 1 : BytesLess(node[t[j]].key, node[t[j + 1]].key)

\* C17: after any sequence of put and put_batch calls the traversal of the
\* bottom chain visits every node, in strictly increasing byte-lexicographic
\* key order, so no key twice; an update keeps the node of its key; every
\* upper level is increasing as well.
C17_OrderedTraversal ==
    /\ Len(Chain(sl)) = Cardinality(DOMAIN sl.node) - 1
    /\ Increasing(sl.node, Chain(sl))
    /\ \A i \in 1..max_level :
          Increasing(sl.node, LevelChainFrom(sl.node, sl.node[Header].forward[i], i))

C17_Witness ==
    /\ Len(Chain(sl)) = 3
    /\ Chain(sl) = <<3, 1, 2>>
    /\ sl.node[1].value = <<"2", "2">>
    /\ sl.node[1].level = 2

\* the entries a skip list stores, as a map from key to value
Entries(s) ==
    LET ids == DOMAIN s.node \ {Header}
    IN  [k \in {s.node[n].key : n \in ids} |->
            s.node[CHOOSE n \in ids : s.node[n].key = k].value]

\* the map after the first p items of a batch are stored, later items over earlier
RECURSIVE ApplyPrefix(_, _, _)
ApplyPrefix(e, items, p) ==
    IF p = 0 THEN e
    ELSE LET d == ApplyPrefix(e, items, p - 1)
         IN  [k \in DOMAIN d \cup {items[p][1]} |->
                 IF k = items[p][1] THEN items[p][2] ELSE d[k]]

\* key + value + overhead, summed over the entries of a map
RECURSIVE UsageOf(_)
UsageOf(e) ==
    IF DOMAIN e = {} THEN 0
    ELSE LET k == CHOOSE k \in DOMAIN e : TRUE
         IN  Len(k) + Len(e[k]) + EntryOverhead
             + UsageOf([j \in DOMAIN e \ {k} |-> e[j]])

\* storing the first p items never takes the usage over the ceiling
Fits(e, items, p) ==
    \A q \in 0..p : UsageOf(ApplyPrefix(e, items, q)) <= max_size

LongestFit(e, items) ==
    CHOOSE p \in 0..Len(items) :
        /\ Fits(e, items, p)
        /\ \A q \in p + 1..Len(items) : ~Fits(e, items, q)

C18_CountIsLongestFit ==
    \A items \in SlBatches, levels \in Levels(MaxSlBatch) :
        PutBatchResult(sl, items, levels, 10).success_count
            = LongestFit(Entries(sl), items)

C18_PrefixStored ==
    \A items \in SlBatches, levels \in Levels(MaxSlBatch) :
        LET r == PutBatchResult(sl, items, levels, 10)
        IN  Entries(r.sl) = ApplyPrefix(Entries(sl), items, r.success_count)

C18_UsageTracked ==
    \A items \in SlBatches, levels \in Levels(MaxSlBatch) :
        LET r == PutBatchResult(sl, items, levels, 10)
        IN  /\ r.sl.size = UsageOf(Entries(r.sl))
            /\ r.sl.size <= max_size

\* C18: put_batch on a skip list near its ceiling stores exactly the longest
\* prefix of the batch that fits and returns its length; nothing at or after
\* the first overflowing item is stored; the tracked size is the sum of
\* key + value + overhead over the stored entries and is at most the ceiling.
C18_LongestPrefixThatFits ==
    /\ C18_CountIsLongestFit
    /\ C18_PrefixStored
    /\ C18_UsageTracked

----------------------------------------------------------------------------
(* Properties of the persistence coordinator *)

C11_Success == ret.op = "flush" => ret.ok

\* a pass begins that no debounce=False call asked for
C11_DebouncedStartStep ==
    (~fl.is_flushing /\ fl'.is_flushing /\ ~fl'.forced) => fl.started >= FlushTicks

Running == {t \in Callers \cup {Timer} : fl.pc[t] = "run"}

C12_OneRunner ==
    /\ Cardinality(Running) <= 1
    /\ fl.is_flushing <=> Running # {}

\* a caller comes upon a running pass: it blocks, or returns at once
C12_BusyStep ==
    (/\ fl.is_flushing
     /\ \/ \E t \in Callers : fl.pc[t] = "idle" /\ fl'.pc[t] = "wait"
        \/ ret' # ret /\ ret'.op = "flush" /\ ret'.status = "pending")
    => /\ fl'.pending
       /\ {t \in Callers \cup {Timer} : fl'.pc[t] = "run"} = Running

\* C12: at most one pass is running at any time, and a caller that finds a
\* pass running sets Pending and starts no second pass.
C12_MutualExclusion == []C12_OneRunner /\ [][C12_BusyStep]_vars

C12_Witness ==
    /\ fl.is_flushing /\ fl.pending
    /\ fl.pc[1] = "run" /\ fl.pc[2] = "wait"
    /\ Len(fl.attempted) > 0

\* C13: a flush recorded as Pending is not lost: a pass begins after it, once
\* the interval has elapsed or a debounce=False call arrives, and Pending is
\* cleared by it.
C13_PendingIsServed == fl.pending ~> (fl.is_flushing /\ ~fl.pending)

C13_Witness ==
    /\ fl.pc[Timer] = "run"
    /\ ~fl.pending
    /\ Len(fl.attempted) > 0

\* a pass ends
C14_EndOfPassStep ==
    (fl.is_flushing /\ ~fl'.is_flushing) =>
        /\ fl.steps \in {Steps(TRUE), Steps(FALSE)}
        /\ fl.attempted = fl.steps
        /\ \A t \in Callers \cup {Timer} : fl'.pc[t] # "run"
        /\ ret' = ret \/ (ret'.op = "flush" /\ ret'.ok)

\* C14: the failure of a sub-step (log, LSM tree, B+ tree, Merkle tree,
\* version snapshot, index snapshot, metadata) does not keep the pass from
\* attempting every other sub-step, is not raised to the caller, and the
\* coordinator is idle again afterwards.
C14_FailureIsolated ==
    /\ [][C14_EndOfPassStep]_vars
    /\ (fl.is_flushing /\ fl.failed # {}) ~> ~fl.is_flushing

C14_Witness ==
    /\ fl.is_flushing
    /\ fl.failed = {"wal"}
    /\ fl.attempted = Steps(TRUE)

----------------------------------------------------------------------------
(* Properties of the durable engine *)

\* C15: a put or delete is acknowledged only after its log record is
\* appended and forced to stable storage, whatever options the flush calls
\* are made with.
C15_WalBeforeAck ==
    ret.op \in {"db_put", "db_delete"} =>
        \E i \in 1..Len(en.wal_disk) : en.wal_disk[i].lsn = ret.lsn

\* every get there is: each key, without a version and with each version
DbGets(m) ==
    [k \in EnKeys |->
        [n \in 0..MaxEnWrites |->
            DbGet(m, k, IF n = 0 THEN NoVersion ELSE <<n>>)]]

C16_RestartStep ==
    (en.flushed /\ en'.restarts = en.restarts + 1) =>
        /\ DbGets(en'.mem) = DbGets(en.mem)
        /\ DbRootHash(en'.mem) = DbRootHash(en.mem)

\* C16: after acknowledged writes and a flush, a crash and the restart with
\* the replay of the log give every get (each key, each version) and
\* get_root_hash the results they had before the crash, writes acknowledged
\* after the last flush included.
C16_RestartRoundTrip == [][C16_RestartStep]_vars

----------------------------------------------------------------------------
(* C21: get_at_time *)

\* the times a reader asks about: before, between, at and after the clock's
QueryTimes == {9, 10, 12, 15, 16}

\* the positions of the list whose record is stamped at or before the time
AtOrBefore(l, timestamp) == {j \in 1..Len(l) : l[j].timestamp <= timestamp}

\* C21: for every key and time, get_at_time returns the last record of the
\* key's list whose timestamp is at or before the time, and None when the list
\* has no such record, whatever timestamps the clock gave to the writes
C21_LastAtOrBefore ==
    \A key \in VKeys, timestamp \in QueryTimes :
        LET l == GetList(vm_versions, key)
            S == AtOrBefore(l, timestamp)
        IN GetAtTime(vm_versions, key, timestamp) =
               IF S = {} THEN NoRecord
               ELSE <<l[CHOOSE j \in S : \A i \in S : i <= j]>>

----------------------------------------------------------------------------
(* C22: get_version *)

\* the version numbers a reader asks for
QueryVersions == 0..MaxVmRecords + 1

\* C22: for every list the manager built by create_version and
\* create_versions_batch called one after the other, get_version(key, v)
\* returns a record of the key's list with version v when the list holds one,
\* and None otherwise, a key without a list included
C22_BinarySearchFinds ==
    \A key \in VKeys, version \in QueryVersions :
        LET l == GetList(vm_versions, key)
            r == GetVersion(vm_versions, key, version)
        IN IF \E j \in 1..Len(l) : l[j].version = version
           THEN \E j \in 1..Len(l) : r = <<l[j]>> /\ l[j].version = version
           ELSE r = NoRecord

C22_Witness ==
    /\ <<"a">> \in DOMAIN vm_versions
    /\ Len(vm_versions[<<"a">>]) = 3
    /\ GetVersion(vm_versions, <<"a">>, 1) = <<vm_versions[<<"a">>][1]>>
    /\ GetVersion(vm_versions, <<"a">>, 3) = <<vm_versions[<<"a">>][3]>>
    /\ GetVersion(vm_versions, <<"b">>, 1) = NoRecord

----------------------------------------------------------------------------
(* C23: the digest of a record is written once *)

\* the four fields a record is created with
Created(r) == <<r.version, r.timestamp, r.value, r.prev_hash>>

\* C23 (state part): on every stored record _compute_hash sets the digest of
\* the record's content, and a second _compute_hash changes nothing
C23_ComputeOnce ==
    \A key \in DOMAIN vm_versions : \A j \in 1..Len(vm_versions[key]) :
        LET r == vm_versions[key][j]
        IN /\ ComputeHash(r).hash = SHA256(Content(r)) \/ ComputeHash(r) = r
           /\ r.hash # None => ComputeHash(r) = r
           /\ ComputeHash(ComputeHash(r)) = ComputeHash(r)

\* C23 (step part): no step of the manager or of a reader changes the version,
\* timestamp, value or prev_hash of a stored record; its hash stays as it is
\* or goes from None to the digest of its content; and the record a step
\* appended last has its hash unset
C23_Step ==
    \A key \in DOMAIN vm_versions' :
        LET old == GetList(vm_versions, key)
            new == vm_versions'[key]
        IN /\ Len(old) <= Len(new)
           /\ \A j \in 1..Len(old) :
                 /\ Created(new[j]) = Created(old[j])
                 /\ \/ new[j].hash = old[j].hash
                    \/ old[j].hash = None /\ new[j].hash = SHA256(Content(old[j]))
           /\ \A j \in Len(old) + 1..Len(new) :
                 new[j].hash \in {None, SHA256(Content(new[j]))}
           /\ Len(old) < Len(new) => new[Len(new)].hash = None

\* C23: the digest of a record is unset at creation, is computed at most once
\* and never changes afterwards, and the other fields never change
C23_HashWriteOnce == []C23_ComputeOnce /\ [][C23_Step]_vmvars

\* a reader asked the first record of a chain for its digest after the
\* successor had been linked to it, and the call computed nothing
C23_Witness ==
    /\ ret.op = "_compute_hash" /\ ret.index = 1 /\ ~ret.computed
    /\ Len(vm_versions[ret.key]) = 2
    /\ vm_versions[ret.key][2].prev_hash = vm_versions[ret.key][1].hash
    /\ vm_versions[ret.key][1].hash # None

----------------------------------------------------------------------------
(* C26: the two maps of the manager agree *)

\* C26: after any sequence of create_version and create_versions_batch called
\* one after the other, versions and current_versions have the same keys, every
\* list is non-empty, the version numbers of a list never decrease, and the
\* version of get_latest(key) is get_current_version(key); for a key never
\* written get_latest is None and get_current_version is 0
C26_MapsAgree ==
    /\ DOMAIN vm_versions = GetAllKeys(current_versions)
    /\ \A key \in DOMAIN vm_versions :
          /\ vm_versions[key] # <<>>
          /\ \A j \in 1..Len(vm_versions[key]) - 1 :
                vm_versions[key][j].version <= vm_versions[key][j + 1].version
    /\ \A key \in VKeys :
          LET latest == GetLatest(vm_versions, key)
          IN IF key \in GetAllKeys(current_versions)
             THEN /\ latest # NoRecord
                  /\ latest[1].version = GetCurrentVersion(current_versions, key)
             ELSE /\ latest = NoRecord
                  /\ GetCurrentVersion(current_versions, key) = 0

\* one key written by a batch that names it twice and then once more, the
\* other key never written
C26_Witness ==
    /\ DOMAIN vm_versions = {<<"a">>}
    /\ Len(vm_versions[<<"a">>]) = 3
    /\ vm_versions[<<"a">>][1].version = vm_versions[<<"a">>][2].version
    /\ GetCurrentVersion(current_versions, <<"a">>) = 2
    /\ GetCurrentVersion(current_versions, <<"b">>) = 0

----------------------------------------------------------------------------
(* C27: the frame of create_versions_batch *)

\* the values a batch gives for a key, in the order of the batch
ValuesFor(items, key) ==
    LET mine == SelectSeq(items, LAMBDA it : it[1] = key)
    IN [i \in 1..Len(mine) |-> mine[i][2]]

\* C27: a create_versions_batch leaves the list and the current version of
\* every key it does not name as they were; for a key it names, the records
\* the list held stay in their places with their version, timestamp, value and
\* prev_hash, and the list grows at its end by one record per item naming the
\* key, in the order of the items
C27_BatchStep ==
    ret'.op = "create_versions_batch" =>
        \A key \in VKeys :
            LET old == GetList(vm_versions, key)
                new == GetList(vm_versions', key)
                vals == ValuesFor(ret'.items, key)
            IN IF vals = <<>>
               THEN /\ (key \in DOMAIN vm_versions') = (key \in DOMAIN vm_versions)
                    /\ new = old
                    /\ (key \in DOMAIN current_versions')
                           = (key \in DOMAIN current_versions)
                    /\ GetOr0(current_versions', key) = GetOr0(current_versions, key)
               ELSE /\ Len(new) = Len(old) + Len(vals)
                    /\ \A j \in 1..Len(old) : Created(new[j]) = Created(old[j])
                    /\ \A i \in 1..Len(vals) : new[Len(old) + i].value = vals[i]

C27_BatchFrame == [][C27_BatchStep]_vmvars

\* a batch named only one key, which had a record, while the other key had a
\* list too
C27_Witness ==
    /\ ret.op = "create_versions_batch"
    /\ Len(ret.items) = 1 /\ ret.items[1][1] = <<"a">>
    /\ ret.value[1].version = 2
    /\ Len(vm_versions[<<"a">>]) = 2
    /\ <<"b">> \in DOMAIN vm_versions

----------------------------------------------------------------------------
(* C28: the bytes that are hashed *)

\* the fields the digest covers, with b'' for a missing prev_hash
Covered(r) ==
    <<r.version, r.timestamp, r.value,
      IF r.prev_hash = None THEN <<>> ELSE r.prev_hash>>

\* C28: two records that differ in version, timestamp, value or prev_hash (a
\* missing prev_hash counting as empty) are serialized to different bytes, and
\* so get different digests
C28_InjectiveEncoding ==
    ret.op = "digests" =>
        (Covered(ret.a) # Covered(ret.b) =>
            /\ Content(ret.a) # Content(ret.b)
            /\ ret.a.hash # ret.b.hash)

----------------------------------------------------------------------------
(* C25: the flush of the LSM tree terminates *)

\* C25 (state part): a flush waits at most MaxWaitCount times
C25_BoundedWait == lsm.wait_count <= MaxWaitCount

\* C25: a flush that is waiting for the earlier immutable memtable returns,
\* also when that memtable is never persisted: after at most MaxWaitCount
\* waits it leaves its memtable to the background
C25_FlushReturns == []C25_BoundedWait /\ (lsm.pc = "wait" ~> lsm.pc = "idle")

\* a flush returned after the last wait, the earlier immutable memtable
\* still in flight and its own memtable left behind
C25_Witness ==
    /\ ret.op = "lsm_flush" /\ ~ret.handed_off
    /\ lsm.pc = "idle" /\ lsm.wait_count = MaxWaitCount
    /\ lsm.immutable /\ lsm.left

----------------------------------------------------------------------------
(* C24: the order of the sub-steps of a pass *)

\* the sub-steps that save a snapshot
IsSnapshotStep(step) == \E i \in 1..Len(SnapshotSteps) : SnapshotSteps[i] = step

\* C24: in a pass, the hand-off of the write buffer (the LSM tree's flush)
\* comes before every snapshot sub-step (B+ tree, Merkle tree, version
\* snapshot, index snapshot, metadata), and a snapshot sub-step runs inside
\* the pass only when the pass was started with force_sync
C24_StepOrder ==
    /\ \A i \in 1..Len(fl.attempted) :
          IsSnapshotStep(fl.attempted[i]) =>
              /\ fl.force_sync
              /\ \E j \in 1..i - 1 : fl.attempted[j] = "lsm"
    /\ \A t \in Callers \cup {Timer} :
          (fl.pc[t] = "run" /\ Len(fl.attempted) = Len(fl.steps)) =>
              /\ \E j \in 1..Len(fl.attempted) : fl.attempted[j] = "lsm"
              /\ fl.force_sync =>
                    \A i \in 1..Len(SnapshotSteps) :
                        \E j \in 1..Len(fl.attempted) :
                            fl.attempted[j] = SnapshotSteps[i]

\* a pass started with force_sync has run all its sub-steps
C24_Witness ==
    /\ fl.is_flushing /\ fl.force_sync
    /\ Len(fl.attempted) = Len(CriticalSteps) + Len(SnapshotSteps)
    /\ fl.attempted[2] = "lsm"
    /\ IsSnapshotStep(fl.attempted[Len(fl.attempted)])

----------------------------------------------------------------------------
(* C29: amdb_close *)

\* C29: when amdb_close releases the handle, the flush it called has run a
\* physical pass (or waited for one that was running to complete), also when
\* another flush completed less than the interval before the call
C29_ClosePersists ==
    ret.op = "amdb_close" => ret.flush \in {"persisted", "partial"}

----------------------------------------------------------------------------
(* C30: amdb_put *)

\* C30: amdb_put returns AMDB_OK only when db.put gave a true success flag and
\* a root hash of at least 32 bytes, whose first 32 bytes are then in the
\* caller's buffer; whenever db.put reports a failure the status is not AMDB_OK
C30_OkMeansSuccess ==
    ret.op = "amdb_put" =>
        /\ ret.status = AMDB_OK =>
              /\ ret.result.kind = "tuple"
              /\ ret.result.success /\ ret.result.is_bytes
              /\ Len(ret.result.root_hash) >= RootHashLen
              /\ ret.root_hash = SubSeq(ret.result.root_hash, 1, RootHashLen)
        /\ (ret.result.kind = "raise" \/ ~ret.result.success) =>
              ret.status # AMDB_OK

====
